---- MODULE Spec2Model ----
(***************************************************************************)
(* Model of src/search/AhoCorasick.js: an online Aho-Corasick automaton    *)
(* with add, delete and query.  Strings are sequences of characters.  A    *)
(* nullable field (suffix, word) is a set: {} for null, {v} for the value. *)
(***************************************************************************)
EXTENDS Integers, Sequences, FiniteSets, TLC

\* ---------------------------------------------------------------- bounds
Alphabet == {"a", "b"}
MaxWordLen == 2
MaxHayLen == 2
MaxNodes == 3

\* ------------------------------------------------------------- constants
ROOT == 0
EMPTY == -1

VARIABLES _dict, _ghosts, _next, _nodes, threw, shadow, twin, pending, phase

vars == <<_dict, _ghosts, _next, _nodes, threw, shadow, twin, pending, phase>>

\* ------------------------------------------------------------ strings
RECURSIVE StringsUpTo(_)
StringsUpTo(k) ==
  IF k = 0 THEN {<<>>}
  ELSE LET shorter == StringsUpTo(k - 1)
       IN shorter \cup {Append(s, c) : s \in {x \in shorter : Len(x) = k - 1}, c \in Alphabet}

\* Arguments handed to add and delete (the empty string included).
Words == StringsUpTo(MaxWordLen)
\* Arguments handed to query.
Haystacks == StringsUpTo(MaxHayLen)

\* w occurs in h as a contiguous substring.
Occurs(w, h) ==
  \E i \in 0..(Len(h) - Len(w)) : SubSeq(h, i + 1, i + Len(w)) = w

\* ------------------------------------------------------------ the object
\* The root node as built by the constructor.
RootNode ==
  [char |-> <<>>, children |-> <<>>, end |-> FALSE, suffixOf |-> {},
   parent |-> EMPTY, suffix |-> {ROOT}, word |-> {<<>>}]

\* new AhoCorasick()
New ==
  [_dict |-> {}, _ghosts |-> {}, _next |-> ROOT + 1, _nodes |-> (ROOT :> RootNode)]

\* The object held in the variables.
this == [_dict |-> _dict, _ghosts |-> _ghosts, _next |-> _next, _nodes |-> _nodes]

\* n[node].children[char] is set (truthy / non-null: identifiers are >= 2).
HasChild(n, node, char) == char \in DOMAIN n[node].children

\* Object.keys of an integer-keyed object: ascending order.
RECURSIVE Keys(_)
Keys(S) ==
  IF S = {} THEN <<>>
  ELSE LET m == CHOOSE x \in S : \A y \in S : x <= y
       IN <<m>> \o Keys(S \ {m})

\* ------------------------------------------------------ _clearSuffixes
\* toClear is the snapshot of keys; its entries are strings, so the test
\* clear === node against the numeric node is never true.
RECURSIVE _clearSuffixes(_, _), ClearLoop(_, _, _, _)
ClearLoop(n, node, toClear, i) ==
  IF i > Len(toClear) THEN n
  ELSE LET clear == toClear[i]
           n1 == [n EXCEPT ![node].suffixOf = @ \ {clear}, ![clear].suffix = {}]
       IN ClearLoop(_clearSuffixes(n1, clear), node, toClear, i + 1)

_clearSuffixes(n, node) == ClearLoop(n, node, Keys(n[node].suffixOf), 1)

\* ------------------------------------------------------ faulty variants
\* Variants of the operations below, each with one slip; the properties
\* further down tell every one of them from the operation itself.

\* AddLoop without lines 77-79: an existing last node is not marked.
RECURSIVE AddLoop_noMarkEnd(_, _, _, _, _)
AddLoop_noMarkEnd(n, nxt, curr, word, i) ==
  IF i > Len(word) THEN [n |-> n, nxt |-> nxt]
  ELSE LET char == word[i]
       IN IF HasChild(n, curr, char)
          THEN AddLoop_noMarkEnd(n, nxt, n[curr].children[char], word, i + 1)
          ELSE LET newNode == [char |-> <<char>>, children |-> <<>>,
                               end |-> (i = Len(word)), suffixOf |-> {},
                               parent |-> curr, suffix |-> {}, word |-> {}]
                   n1 == _clearSuffixes(n, curr)
                   next == nxt + 1
                   n2 == (next :> newNode) @@ n1
                   n3 == [n2 EXCEPT ![curr].children = (char :> next) @@ @]
               IN AddLoop_noMarkEnd(n3, next, next, word, i + 1)

\* AddLoop without line 101: the new node is not attached to its parent.
RECURSIVE AddLoop_noAttach(_, _, _, _, _)
AddLoop_noAttach(n, nxt, curr, word, i) ==
  IF i > Len(word) THEN [n |-> n, nxt |-> nxt]
  ELSE LET char == word[i]
       IN IF HasChild(n, curr, char)
          THEN LET c == n[curr].children[char]
                   n1 == IF i = Len(word) THEN [n EXCEPT ![c].end = TRUE] ELSE n
               IN AddLoop_noAttach(n1, nxt, c, word, i + 1)
          ELSE LET newNode == [char |-> <<char>>, children |-> <<>>,
                               end |-> (i = Len(word)), suffixOf |-> {},
                               parent |-> curr, suffix |-> {}, word |-> {}]
                   n1 == _clearSuffixes(n, curr)
                   next == nxt + 1
                   n2 == (next :> newNode) @@ n1
               IN AddLoop_noAttach(n2, next, next, word, i + 1)

\* AddLoop with end: true on line 85: every new node is marked.
RECURSIVE AddLoop_endAlways(_, _, _, _, _)
AddLoop_endAlways(n, nxt, curr, word, i) ==
  IF i > Len(word) THEN [n |-> n, nxt |-> nxt]
  ELSE LET char == word[i]
       IN IF HasChild(n, curr, char)
          THEN LET c == n[curr].children[char]
                   n1 == IF i = Len(word) THEN [n EXCEPT ![c].end = TRUE] ELSE n
               IN AddLoop_endAlways(n1, nxt, c, word, i + 1)
          ELSE LET newNode == [char |-> <<char>>, children |-> <<>>,
                               end |-> TRUE, suffixOf |-> {},
                               parent |-> curr, suffix |-> {}, word |-> {}]
                   n1 == _clearSuffixes(n, curr)
                   next == nxt + 1
                   n2 == (next :> newNode) @@ n1
                   n3 == [n2 EXCEPT ![curr].children = (char :> next) @@ @]
               IN AddLoop_endAlways(n3, next, next, word, i + 1)

\* AddLoop without line 103: the counter is not advanced.
RECURSIVE AddLoop_noCounterUpdate(_, _, _, _, _)
AddLoop_noCounterUpdate(n, nxt, curr, word, i) ==
  IF i > Len(word) THEN [n |-> n, nxt |-> nxt]
  ELSE LET char == word[i]
       IN IF HasChild(n, curr, char)
          THEN LET c == n[curr].children[char]
                   n1 == IF i = Len(word) THEN [n EXCEPT ![c].end = TRUE] ELSE n
               IN AddLoop_noCounterUpdate(n1, nxt, c, word, i + 1)
          ELSE LET newNode == [char |-> <<char>>, children |-> <<>>,
                               end |-> (i = Len(word)), suffixOf |-> {},
                               parent |-> curr, suffix |-> {}, word |-> {}]
                   n1 == _clearSuffixes(n, curr)
                   next == nxt + 1
                   n2 == (next :> newNode) @@ n1
                   n3 == [n2 EXCEPT ![curr].children = (char :> next) @@ @]
               IN AddLoop_noCounterUpdate(n3, nxt, next, word, i + 1)

\* AddLoop marking the end flag on line 78 before curr has moved to the
\* child (lines 75 and 78 swapped).
RECURSIVE AddLoop_marksParent(_, _, _, _, _)
AddLoop_marksParent(n, nxt, curr, word, i) ==
  IF i > Len(word) THEN [n |-> n, nxt |-> nxt]
  ELSE LET char == word[i]
       IN IF HasChild(n, curr, char)
          THEN LET c == n[curr].children[char]
                   n1 == IF i = Len(word) THEN [n EXCEPT ![curr].end = TRUE] ELSE n
               IN AddLoop_marksParent(n1, nxt, c, word, i + 1)
          ELSE LET newNode == [char |-> <<char>>, children |-> <<>>,
                               end |-> (i = Len(word)), suffixOf |-> {},
                               parent |-> curr, suffix |-> {}, word |-> {}]
                   n1 == _clearSuffixes(n, curr)
                   next == nxt + 1
                   n2 == (next :> newNode) @@ n1
                   n3 == [n2 EXCEPT ![curr].children = (char :> next) @@ @]
               IN AddLoop_marksParent(n3, next, next, word, i + 1)

\* ------------------------------------------------------------------ add
\* The loop of add over the characters of word, from index i (1-based).
RECURSIVE AddLoop(_, _, _, _, _)
AddLoop(n, nxt, curr, word, i) ==
  IF i > Len(word) THEN [n |-> n, nxt |-> nxt]
  ELSE LET char == word[i]
       IN IF HasChild(n, curr, char)
          THEN LET c == n[curr].children[char]
                   n1 == IF i = Len(word) THEN [n EXCEPT ![c].end = TRUE] ELSE n
               IN AddLoop(n1, nxt, c, word, i + 1)
          ELSE LET newNode == [char |-> <<char>>, children |-> <<>>,
                               end |-> (i = Len(word)), suffixOf |-> {},
                               parent |-> curr, suffix |-> {}, word |-> {}]
                   n1 == _clearSuffixes(n, curr)
                   next == nxt + 1
                   n2 == (next :> newNode) @@ n1
                   n3 == [n2 EXCEPT ![curr].children = (char :> next) @@ @]
               IN AddLoop(n3, next, next, word, i + 1)

\* add with an identifier taken from the counter on entry, before the
\* dictionary is consulted.
add_allocEager(t, word) ==
  IF word = <<>>
  THEN [this |-> t, threw |-> "Cannot add empty strings to the structure."]
  ELSE LET t0 == [t EXCEPT !._next = @ + 1]
       IN IF word \in t._dict
          THEN [this |-> t0, threw |-> ""]
          ELSE LET r == AddLoop(t0._nodes, t0._next, ROOT, word, 1)
               IN [this |-> [_dict |-> t._dict \cup {word}, _ghosts |-> t._ghosts \ {word},
                             _next |-> r.nxt, _nodes |-> r.n],
                   threw |-> ""]

\* add without the assertion of line 60.
add_noPrecondition(t, word) ==
  IF word \in t._dict
  THEN [this |-> t, threw |-> ""]
  ELSE LET r == AddLoop(t._nodes, t._next, ROOT, word, 1)
       IN [this |-> [_dict |-> t._dict \cup {word}, _ghosts |-> t._ghosts \ {word},
                     _next |-> r.nxt, _nodes |-> r.n],
           threw |-> ""]

\* add without line 67: the word stays in the retired set.
add_keepsGhost(t, word) ==
  IF word = <<>>
  THEN [this |-> t, threw |-> "Cannot add empty strings to the structure."]
  ELSE IF word \in t._dict
  THEN [this |-> t, threw |-> ""]
  ELSE LET r == AddLoop(t._nodes, t._next, ROOT, word, 1)
       IN [this |-> [_dict |-> t._dict \cup {word}, _ghosts |-> t._ghosts,
                     _next |-> r.nxt, _nodes |-> r.n],
           threw |-> ""]

\* add(word): the object after the call and the message it threw ("" if none).
add(t, word) ==
  IF word = <<>>
  THEN [this |-> t, threw |-> "Cannot add empty strings to the structure."]
  ELSE IF word \in t._dict
  THEN [this |-> t, threw |-> ""]
  ELSE LET r == AddLoop(t._nodes, t._next, ROOT, word, 1)
       IN [this |-> [_dict |-> t._dict \cup {word}, _ghosts |-> t._ghosts \ {word},
                     _next |-> r.nxt, _nodes |-> r.n],
           threw |-> ""]

\* --------------------------------------------------------------- delete
\* The walk of delete: the node at the end of word's path, or EMPTY when
\* the assertion on a missing child fires.
RECURSIVE DeleteLoop(_, _, _, _)
DeleteLoop(n, curr, word, i) ==
  IF i > Len(word) THEN curr
  ELSE IF ~HasChild(n, curr, word[i]) THEN EMPTY
  ELSE DeleteLoop(n, n[curr].children[word[i]], word, i + 1)

\* delete without line 133: the end flag stays set.
delete_keepsEnd(t, word) ==
  IF word \notin t._dict
  THEN [this |-> t, threw |-> ""]
  ELSE LET t1 == [t EXCEPT !._dict = @ \ {word}, !._ghosts = @ \cup {word}]
           curr == DeleteLoop(t._nodes, ROOT, word, 1)
       IN IF curr = EMPTY
          THEN [this |-> t1, threw |-> "Unexpected missing child while deleting a node"]
          ELSE [this |-> t1, threw |-> ""]

\* delete that also resets the memoized failure link of the node it unmarks.
delete_clearsLink(t, word) ==
  IF word \notin t._dict
  THEN [this |-> t, threw |-> ""]
  ELSE LET t1 == [t EXCEPT !._dict = @ \ {word}, !._ghosts = @ \cup {word}]
           curr == DeleteLoop(t._nodes, ROOT, word, 1)
       IN IF curr = EMPTY
          THEN [this |-> t1, threw |-> "Unexpected missing child while deleting a node"]
          ELSE [this |-> [t1 EXCEPT !._nodes[curr].end = FALSE, !._nodes[curr].suffix = {}],
                threw |-> ""]

\* delete(word): the object after the call and the message it threw.
delete(t, word) ==
  IF word \notin t._dict
  THEN [this |-> t, threw |-> ""]
  ELSE LET t1 == [t EXCEPT !._dict = @ \ {word}, !._ghosts = @ \cup {word}]
           curr == DeleteLoop(t._nodes, ROOT, word, 1)
       IN IF curr = EMPTY
          THEN [this |-> t1, threw |-> "Unexpected missing child while deleting a node"]
          ELSE [this |-> [t1 EXCEPT !._nodes[curr].end = FALSE], threw |-> ""]

\* ------------------------------------------- _getSuffix and _transition
\* Both return the node table (memoized fields updated) and the result r.
RECURSIVE _getSuffix(_, _), _transition(_, _, _)
\* _getSuffix that records node in the suffixOf set of the link it memoizes.
_getSuffix_registers(n, node) ==
  IF n[node].suffix # {}
  THEN [n |-> n, r |-> CHOOSE s \in n[node].suffix : TRUE]
  ELSE LET res == IF n[node].parent = ROOT
                  THEN [n |-> n, r |-> ROOT]
                  ELSE LET p == _getSuffix(n, n[node].parent)
                       IN _transition(p.n, p.r, n[node].char[1])
       IN [n |-> [res.n EXCEPT ![node].suffix = {res.r},
                               ![res.r].suffixOf = @ \cup {node}],
           r |-> res.r]

\* _getSuffix that transitions on the parent's character instead of the
\* node's own on line 173.
_getSuffix_parentChar(n, node) ==
  IF n[node].suffix # {}
  THEN [n |-> n, r |-> CHOOSE s \in n[node].suffix : TRUE]
  ELSE LET res == IF n[node].parent = ROOT
                  THEN [n |-> n, r |-> ROOT]
                  ELSE LET p == _getSuffix(n, n[node].parent)
                       IN _transition(p.n, p.r, n[n[node].parent].char[1])
       IN [n |-> [res.n EXCEPT ![node].suffix = {res.r}], r |-> res.r]

_getSuffix(n, node) ==
  IF n[node].suffix # {}
  THEN [n |-> n, r |-> CHOOSE s \in n[node].suffix : TRUE]
  ELSE LET res == IF n[node].parent = ROOT
                  THEN [n |-> n, r |-> ROOT]
                  ELSE LET p == _getSuffix(n, n[node].parent)
                       IN _transition(p.n, p.r, n[node].char[1])
       IN [n |-> [res.n EXCEPT ![node].suffix = {res.r}], r |-> res.r]

_transition(n, node, char) ==
  IF HasChild(n, node, char) THEN [n |-> n, r |-> n[node].children[char]]
  ELSE IF node = ROOT THEN [n |-> n, r |-> ROOT]
  ELSE LET s == _getSuffix(n, node)
       IN _transition(s.n, s.r, char)

\* ------------------------------------------------------------- _getWord
RECURSIVE _getWord(_, _)
\* _getWord that puts the node's character before its parent's word.
_getWord_reversed(n, node) ==
  IF n[node].word # {}
  THEN [n |-> n, r |-> CHOOSE w \in n[node].word : TRUE]
  ELSE LET p == _getWord(n, n[node].parent)
           word == n[node].char \o p.r
       IN [n |-> [p.n EXCEPT ![node].word = {word}], r |-> word]

_getWord(n, node) ==
  IF n[node].word # {}
  THEN [n |-> n, r |-> CHOOSE w \in n[node].word : TRUE]
  ELSE LET p == _getWord(n, n[node].parent)
           word == p.r \o n[node].char
       IN [n |-> [p.n EXCEPT ![node].word = {word}], r |-> word]

\* ------------------------------------------------------------ _getWords
\* The while loop of _getWords from curr, result being the array so far.
RECURSIVE GetWordsLoop(_, _, _)
GetWordsLoop(n, curr, result) ==
  IF curr = ROOT THEN [n |-> n, r |-> result]
  ELSE LET s == _getSuffix(n, curr)
       IN IF s.n[s.r].end
          THEN LET w == _getWord(s.n, s.r)
               IN GetWordsLoop(w.n, s.r, Append(result, w.r))
          ELSE GetWordsLoop(s.n, s.r, result)

_getWords(n, node) ==
  IF n[node].end
  THEN LET w == _getWord(n, node)
       IN GetWordsLoop(w.n, node, <<w.r>>)
  ELSE GetWordsLoop(n, node, <<>>)

\* The number of times the while loop of _getWords runs from curr, each run
\* being one call of _getSuffix.
RECURSIVE GetWordsSteps(_, _)
GetWordsSteps(n, curr) ==
  IF curr = ROOT THEN 0
  ELSE LET s == _getSuffix(n, curr)
       IN 1 + GetWordsSteps(s.n, s.r)

\* ---------------------------------------------------------------- query
\* The loop of query from index i; trace is the value of curr after each
\* character consumed so far.
RECURSIVE QueryLoop(_, _, _, _, _, _)
QueryLoop(n, curr, haystack, i, results, trace) ==
  IF i > Len(haystack) THEN [n |-> n, results |-> results, trace |-> trace]
  ELSE LET tr == _transition(n, curr, haystack[i])
       IN IF tr.n[tr.r].end
          THEN LET words == _getWords(tr.n, tr.r)
               IN QueryLoop(words.n, tr.r, haystack, i + 1,
                            results \cup {words.r[j] : j \in 1..Len(words.r)},
                            Append(trace, tr.r))
          ELSE QueryLoop(tr.n, tr.r, haystack, i + 1, results, Append(trace, tr.r))

query(t, haystack) ==
  LET q == QueryLoop(t._nodes, ROOT, haystack, 1, {}, <<>>)
  IN [this |-> [t EXCEPT !._nodes = q.n], results |-> q.results, trace |-> q.trace]

\* --------------------------------------------------------------- actions
\* The variables hold the object t.
Install(t) ==
  /\ _dict' = t._dict
  /\ _ghosts' = t._ghosts
  /\ _next' = t._next
  /\ _nodes' = t._nodes

\* threw is the message of the exception the last call surfaced, "" if none.
Init ==
  /\ _dict = New._dict
  /\ _ghosts = New._ghosts
  /\ _next = New._next
  /\ _nodes = New._nodes
  /\ threw = ""
  /\ shadow = New
  /\ twin = New
  /\ pending = <<>>
  /\ phase = "idle"

\* A call of add(word); shadow receives the same call.
Add(word) ==
  LET a == add(this, word)
  IN /\ Cardinality(DOMAIN a.this._nodes) <= MaxNodes + 1
     /\ Install(a.this)
     /\ threw' = a.threw
     /\ shadow' = add(shadow, word).this
     /\ UNCHANGED <<twin, pending, phase>>

\* A call of delete(word); shadow receives the same call.
Delete(word) ==
  LET d == delete(this, word)
  IN /\ Install(d.this)
     /\ threw' = d.threw
     /\ shadow' = delete(shadow, word).this
     /\ UNCHANGED <<twin, pending, phase>>

\* A call of query(haystack); shadow is a structure that is never queried.
Query(haystack) ==
  LET q == query(this, haystack)
  IN /\ Install(q.this)
     /\ threw' = ""
     /\ UNCHANGED <<shadow, twin, pending, phase>>

Next ==
  \/ \E word \in Words : Add(word)
  \/ \E word \in Words : Delete(word)
  \/ \E haystack \in Haystacks : Query(haystack)

Spec == Init /\ [][Next]_vars

\* ------------------------------------------- delete followed by re-add
\* A second specification: at some point delete(word) is called on an
\* active word while twin goes on as the structure on which it was never
\* called; queries follow on both; then add(word) is called again.
BeginDelete(word) ==
  /\ phase = "idle"
  /\ word \in _dict
  /\ twin' = this
  /\ pending' = word
  /\ phase' = "deleted"
  /\ Install(delete(this, word).this)
  /\ threw' = delete(this, word).threw
  /\ shadow' = delete(shadow, word).this

QueryBetween(haystack) ==
  /\ phase = "deleted"
  /\ Install(query(this, haystack).this)
  /\ twin' = query(twin, haystack).this
  /\ threw' = ""
  /\ UNCHANGED <<shadow, pending, phase>>

ReAdd ==
  /\ phase = "deleted"
  /\ Install(add(this, pending).this)
  /\ threw' = add(this, pending).threw
  /\ shadow' = add(shadow, pending).this
  /\ phase' = "readded"
  /\ UNCHANGED <<twin, pending>>

NextReAdd ==
  \/ \E word \in Words : phase = "idle" /\ Add(word)
  \/ \E word \in Words : phase = "idle" /\ Delete(word)
  \/ \E haystack \in Haystacks : phase = "idle" /\ Query(haystack)
  \/ \E word \in Words : BeginDelete(word)
  \/ \E haystack \in Haystacks : QueryBetween(haystack)
  \/ ReAdd

SpecReAdd == Init /\ [][NextReAdd]_vars

\* ------------------------------------------------- reference definitions
\* The string spelled by the path from the root to node (parent links and
\* char fields; the memoized word field is not read).
RECURSIVE PathWord(_, _)
PathWord(n, node) ==
  IF node = ROOT THEN <<>> ELSE PathWord(n, n[node].parent) \o n[node].char

\* The node at the end of the root path spelling w, EMPTY if there is none.
RECURSIVE Walk(_, _, _, _)
Walk(n, curr, w, i) ==
  IF i > Len(w) THEN curr
  ELSE IF ~HasChild(n, curr, w[i]) THEN EMPTY
  ELSE Walk(n, n[curr].children[w[i]], w, i + 1)

NodeOf(n, w) == Walk(n, ROOT, w, 1)

\* The node of the longest proper suffix of node's word that is a root path.
LongestSuffixNode(n, node) ==
  LET w == PathWord(n, node)
      starts == {k \in 2..(Len(w) + 1) : NodeOf(n, SubSeq(w, k, Len(w))) # EMPTY}
      k == CHOOSE x \in starts : \A y \in starts : x <= y
  IN NodeOf(n, SubSeq(w, k, Len(w)))

\* node and the nodes on its failure-link chain down to the root, the links
\* being the ones _getSuffix returns.
RECURSIVE Chain(_, _)
Chain(n, node) ==
  IF node = ROOT THEN {ROOT} ELSE {node} \cup Chain(n, _getSuffix(n, node).r)

\* A fresh structure to which the words of S are added, one by one.
RECURSIVE BuildFrom(_, _)
BuildFrom(t, S) ==
  IF S = {} THEN t
  ELSE LET w == CHOOSE x \in S : TRUE
       IN BuildFrom(add(t, w).this, S \ {w})

Fresh(S) == BuildFrom(New, S)

NonRoot == DOMAIN _nodes \ {ROOT}

\* ----------------------------------------------------------------- C1
\* C1 (completeness of query): every active word that occurs in a haystack
\* as a contiguous substring is in the set query returns for it.
QueryComplete ==
  \A h \in Haystacks : \A w \in _dict :
    Occurs(w, h) => w \in query(this, h).results

\* ----------------------------------------------------------------- C2
\* C2 (soundness of query): every word query returns is active and occurs
\* in the haystack; so no retired word is returned, query of the empty
\* string is empty, and a haystack holding no active word gives the empty set.
QuerySound ==
  \A h \in Haystacks : \A w \in query(this, h).results :
    w \in _dict /\ Occurs(w, h)

\* A retired word occurs in a haystack for which query returns something.
QuerySoundWitness ==
  \E h \in Haystacks :
    /\ query(this, h).results # {}
    /\ \E g \in _ghosts : Occurs(g, h)

\* ----------------------------------------------------------------- C3
\* C3 (order independence): a structure that took add and delete calls and
\* no query answers every haystack like a fresh structure to which only the
\* words now active were added.
OrderIndependent ==
  \A h \in Haystacks :
    query(shadow, h).results = query(Fresh(shadow._dict), h).results

\* ----------------------------------------------------------------- C4
\* C4 (idempotence): for every non-empty word, a second add leaves the
\* object a first add produced unchanged, and likewise for delete.
Idempotent ==
  \A w \in Words \ {<<>>} :
    /\ add(add(this, w).this, w).this = add(this, w).this
    /\ delete(delete(this, w).this, w).this = delete(this, w).this

\* Some add creates nodes and some delete clears a flag in this state.
IdempotentWitness ==
  /\ \E w \in Words \ {<<>>} : add(this, w).this._next > _next
  /\ \E w \in _dict : delete(this, w).this._nodes # _nodes
  /\ _ghosts # {}

\* ----------------------------------------------------------------- C5
\* C5 (delete then re-add): once delete(w) on an active word, queries and
\* add(w) have run, every haystack gets the same answer as on the structure
\* on which delete(w) was never called.
ReAddRestores ==
  phase = "readded" =>
    \A h \in Haystacks : query(this, h).results = query(twin, h).results

\* The word was re-added after queries that memoized links while it was
\* retired, and it is found again.
ReAddRestoresWitness ==
  /\ phase = "readded"
  /\ \E id \in NonRoot : _nodes[id].suffix # {}
  /\ \E h \in Haystacks : pending \in query(this, h).results

\* ----------------------------------------------------------------- C6
\* C6 (add of the empty string): in every state add("") throws the
\* precondition message and leaves the whole object as it was.
AddEmptyRejected ==
  /\ add(this, <<>>).threw = "Cannot add empty strings to the structure."
  /\ add(this, <<>>).this = this
  /\ <<>> \notin _dict \cup _ghosts

\* add("") has just thrown on a structure holding words and memoized links.
AddEmptyRejectedWitness ==
  /\ threw = "Cannot add empty strings to the structure."
  /\ _dict # {}
  /\ \E id \in NonRoot : _nodes[id].suffix # {}

\* ----------------------------------------------------------------- C7
\* Every identifier a node refers to is a node of the table (query would
\* otherwise dereference an undefined node).
NoDangling ==
  \A id \in DOMAIN _nodes :
    /\ \A c \in DOMAIN _nodes[id].children : _nodes[id].children[c] \in DOMAIN _nodes
    /\ _nodes[id].suffix \subseteq DOMAIN _nodes
    /\ id # ROOT => _nodes[id].parent \in DOMAIN _nodes

\* C7 (no other failure): no call but add("") throws: delete never hits its
\* missing-child assertion, every active word has its whole path in the
\* trie, and query has nothing undefined to dereference.
NoOtherFailure ==
  /\ threw \in {"", "Cannot add empty strings to the structure."}
  /\ \A w \in Words : delete(this, w).threw = ""
  /\ \A w \in Words \ {<<>>} : add(this, w).threw = ""
  /\ \A w \in _dict : NodeOf(_nodes, w) # EMPTY
  /\ NoDangling

\* A delete has returned normally on a trie with memoized links, other
\* words still being active.
NoOtherFailureWitness ==
  /\ threw = ""
  /\ _ghosts # {}
  /\ _dict # {}
  /\ \E id \in NonRoot : _nodes[id].suffix # {} /\ ~_nodes[id].end

\* ----------------------------------------------------------------- C8
\* C8 (failure-link cache): every memoized failure link of a node is the
\* node of the longest proper suffix of its word that is a root path.
SuffixCacheCorrect ==
  \A id \in NonRoot :
    _nodes[id].suffix # {} => _nodes[id].suffix = {LongestSuffixNode(_nodes, id)}

\* ----------------------------------------------------------------- C9
\* C9 (output step): after each character query consumes, the word of every
\* terminal node among the resulting node and its failure-link chain is in
\* the result.
OutputStepCollectsChain ==
  \A h \in Haystacks :
    LET q == query(this, h)
    IN \A i \in 1..Len(q.trace) :
         \A m \in Chain(q.this._nodes, q.trace[i]) :
           q.this._nodes[m].end => PathWord(q.this._nodes, m) \in q.results

\* ----------------------------------------------------------------- C10
\* C10 (terminal flag): a node has end set exactly when the string its path
\* spells is active, and every active word has exactly one such node.
EndMatchesDict ==
  /\ \A id \in DOMAIN _nodes : _nodes[id].end <=> PathWord(_nodes, id) \in _dict
  /\ \A w \in _dict :
       Cardinality({id \in DOMAIN _nodes : _nodes[id].end /\ PathWord(_nodes, id) = w}) = 1

\* An active word, a retired word whose node is kept, and an inner node
\* that never was a word.
EndMatchesDictWitness ==
  /\ _dict # {}
  /\ \E id \in NonRoot : PathWord(_nodes, id) \in _ghosts
  /\ \E id \in NonRoot : PathWord(_nodes, id) \notin _dict \cup _ghosts

\* ----------------------------------------------------------------- C11
\* C11 (frame of delete): delete of an active word changes the active set,
\* the retired set and the end flag of the node at the end of the word's
\* path, and nothing else: no node, edge, parent, memoized link or memoized
\* word.  delete of a word that is not active changes nothing.
DeleteFrame ==
  \A w \in Words :
    LET d == delete(this, w).this
    IN IF w \notin _dict
       THEN d = this
       ELSE /\ d._dict = _dict \ {w}
            /\ d._ghosts = _ghosts \cup {w}
            /\ d._next = _next
            /\ DOMAIN d._nodes = DOMAIN _nodes
            /\ \A id \in DOMAIN _nodes :
                 d._nodes[id] = IF id = NodeOf(_nodes, w)
                                THEN [_nodes[id] EXCEPT !.end = FALSE]
                                ELSE _nodes[id]

\* A retired word whose node is kept with its memoized link and word, next
\* to a word still active.
DeleteFrameWitness ==
  /\ _dict # {}
  /\ \E id \in NonRoot :
       /\ PathWord(_nodes, id) \in _ghosts
       /\ ~_nodes[id].end
       /\ _nodes[id].suffix # {}
       /\ _nodes[id].word # {}

TrieWellFormed ==
  /\ \A id \in NonRoot :
       LET p == _nodes[id].parent
       IN /\ p \in DOMAIN _nodes
          /\ Len(_nodes[id].char) = 1
          /\ HasChild(_nodes, p, _nodes[id].char[1])
          /\ _nodes[p].children[_nodes[id].char[1]] = id
  /\ \A p, q \in DOMAIN _nodes :
       \A c \in DOMAIN _nodes[p].children : \A d \in DOMAIN _nodes[q].children :
         _nodes[p].children[c] = _nodes[q].children[d] => p = q /\ c = d
  /\ \A id \in NonRoot :
       Cardinality({w \in Words : NodeOf(_nodes, w) = id}) = 1
  /\ \A id \in DOMAIN _nodes :
       _nodes[id].word # {} => _nodes[id].word = {PathWord(_nodes, id)}

\* A branching trie in which a node two edges deep has its word memoized.
TrieWellFormedWitness ==
  /\ Cardinality(DOMAIN _nodes[ROOT].children) >= 2
  /\ \E id \in NonRoot :
       /\ _nodes[id].parent # ROOT
       /\ _nodes[id].word # {}

\* ----------------------------------------------------------------- C14
\* C14 (identifiers are never reused): no identifier in the table exceeds
\* the counter; add gives the nodes it creates the identifiers that follow
\* the counter, above every identifier in the table, and never lowers the
\* counter; delete and query create and remove no node and leave the counter.
IdsNeverReused ==
  /\ \A id \in DOMAIN _nodes : id <= _next
  /\ \A w \in Words :
       LET a == add(this, w).this
       IN /\ a._next >= _next
          /\ DOMAIN a._nodes = DOMAIN _nodes \cup ((_next + 1)..a._next)
          /\ \A id \in DOMAIN a._nodes \ DOMAIN _nodes :
               \A old \in DOMAIN _nodes : id > old
  /\ \A w \in Words :
       LET d == delete(this, w).this
       IN DOMAIN d._nodes = DOMAIN _nodes /\ d._next = _next
  /\ \A h \in Haystacks :
       LET q == query(this, h).this
       IN DOMAIN q._nodes = DOMAIN _nodes /\ q._next = _next

\* Nodes were created by several adds, one of them is kept for a retired
\* word, and a further add would create a node.
IdsNeverReusedWitness ==
  /\ _next >= 4
  /\ \E id \in NonRoot : PathWord(_nodes, id) \in _ghosts
  /\ \E w \in Words : add(this, w).this._next > _next

\* ----------------------------------------------------------------- C15
\* C15 (root): the root is never terminal, its failure link is the root,
\* its memoized word is the empty string, its parent is the no-parent
\* value, and no node has the root as a child.
RootInvariant ==
  /\ ROOT \in DOMAIN _nodes
  /\ ~_nodes[ROOT].end
  /\ _nodes[ROOT].suffix = {ROOT}
  /\ _getSuffix(_nodes, ROOT).r = ROOT
  /\ _nodes[ROOT].word = {<<>>}
  /\ _nodes[ROOT].parent = EMPTY
  /\ \A id \in DOMAIN _nodes : \A c \in DOMAIN _nodes[id].children :
       _nodes[id].children[c] # ROOT

\* Under a root with two children a one-letter word is active with its
\* link to the root memoized, and another one-letter word is retired.
RootInvariantWitness ==
  /\ Cardinality(DOMAIN _nodes[ROOT].children) >= 2
  /\ \E id \in NonRoot :
       /\ _nodes[id].parent = ROOT
       /\ _nodes[id].end
       /\ _nodes[id].suffix = {ROOT}
  /\ \E id \in NonRoot : _nodes[id].parent = ROOT /\ PathWord(_nodes, id) \in _ghosts

\* ----------------------------------------------------------------- C16
\* C16 (queries do not influence later results): the structure, whatever
\* queries it has answered, returns for every haystack the set that shadow
\* returns, shadow having taken the same add and delete calls and no query.
QueryHasNoInfluence ==
  \A h \in Haystacks : query(this, h).results = query(shadow, h).results

\* ----------------------------------------------------------------- C17
\* w is a proper suffix of v.
ProperSuffix(w, v) ==
  Len(w) < Len(v) /\ SubSeq(v, Len(v) - Len(w) + 1, Len(v)) = w

\* C17 (termination of query): every memoized failure link of a node other
\* than the root, stale or not, is a node of strictly smaller depth whose
\* word is a proper suffix of the node's word; the link _getSuffix resolves
\* for a node without one is of that kind too, so every failure chain
\* reaches the root.
LinksDescend ==
  \A id \in NonRoot :
    LET s == _getSuffix(_nodes, id).r
    IN /\ _nodes[id].suffix \subseteq {s}
       /\ s \in DOMAIN _nodes
       /\ ProperSuffix(PathWord(_nodes, s), PathWord(_nodes, id))
       /\ ROOT \in Chain(_nodes, id)

\* A query ends its scan on a terminal node whose memoized link is stale,
\* and the loop of _getWords follows that link.
LinksDescendWitness ==
  \E id \in NonRoot : \E h \in Haystacks :
    /\ _nodes[id].end
    /\ _nodes[id].suffix # {}
    /\ _nodes[id].suffix # {LongestSuffixNode(_nodes, id)}
    /\ h # <<>>
    /\ query(this, h).trace[Len(h)] = id

\* ----------------------------------------------------------------- C18
\* C18 (active and retired sets): the two sets are disjoint; delete of an
\* active word moves it from the active to the retired set; add of a word
\* that is not active puts it in the active set and takes it out of the
\* retired set; every retired word keeps its whole path in the trie, ending
\* in a node that is not terminal.
ActiveRetired ==
  /\ _dict \cap _ghosts = {}
  /\ \A w \in _dict :
       LET d == delete(this, w).this
       IN d._dict = _dict \ {w} /\ d._ghosts = _ghosts \cup {w}
  /\ \A w \in Words \ (_dict \cup {<<>>}) :
       LET a == add(this, w).this
       IN a._dict = _dict \cup {w} /\ a._ghosts = _ghosts \ {w}
  /\ \A g \in _ghosts :
       /\ NodeOf(_nodes, g) # EMPTY
       /\ ~_nodes[NodeOf(_nodes, g)].end

\* A retired word is a proper prefix of an active word, and another word
\* was never added.
ActiveRetiredWitness ==
  /\ \E g \in _ghosts : \E w \in _dict :
       Len(g) < Len(w) /\ SubSeq(w, 1, Len(g)) = g
  /\ \E w \in Words \ {<<>>} : w \notin _dict \cup _ghosts

\* ----------------------------------------------------------------- C19
\* C19 (bound on output traversal): the failure-link steps one call of
\* _getWords makes are at most the terminal nodes on the node's failure
\* chain, and so at most the active words.  Stated for the terminal nodes,
\* the ones query calls _getWords on.
OutputTraversalBounded ==
  \A id \in NonRoot :
    _nodes[id].end =>
      /\ GetWordsSteps(_nodes, id)
           <= Cardinality({m \in Chain(_nodes, id) : _nodes[m].end})
      /\ GetWordsSteps(_nodes, id) <= Cardinality(_dict)

====
